---- MODULE Spec2Model ----
(***************************************************************************)
(* Model of the prefix-scoped document cursor of PoloDB                    *)
(* (src/polodb_core/cursor.rs): struct Cursor over an ordered key-value    *)
(* cursor (MultiCursor) and the stacked-key encoder.                       *)
(*                                                                         *)
(* cursor.rs is translated from its source.  MultiCursor (seek, next,      *)
(* done, key, value) and utils::bson::stacked_key live in other files of   *)
(* the crate; they are modelled from the contract the specification gives  *)
(* for the Ordered Cursor and the Key Encoder.                             *)
(***************************************************************************)
EXTENDS Integers, Sequences, FiniteSets, TLC

VARIABLES store, prefix, prefix_bytes, kv_pos, current_key, last, phase,
          yielded, exhausted, fault, positioned, nexts, node, mutex, item

\* the cursor and what is recorded of the calls made on it
cvars == <<store, prefix, prefix_bytes, kv_pos, current_key, last, phase,
           yielded, exhausted, fault, positioned, nexts>>

\* the shared B-tree node and the handles (CursorItem) on it
nvars == <<node, mutex, item>>

vars == <<cvars, nvars>>

\* store         the ordered key space the underlying cursor walks (sorted)
\* prefix        Cursor.prefix
\* prefix_bytes  Cursor.prefix_bytes
\* kv_pos        position of Cursor.kv_cursor: index of its entry in store,
\*               Len(store) + 1 when it is done
\* current_key   Cursor.current_key (None or Some(key))
\* last          the last call made on the cursor and what it returned
\* phase         where the caller stands in the loop
\*                 reset(); while has_next() { peek_data(); next() }
\*               ("off" when the calls made do not follow that loop)
\* yielded       keys of the entries peek_data handed out in that loop
\* exhausted     0: has_next has not returned false since the last
\*               reset/reset_by_pkey; 1: it has; 2: it was called again since
\* fault         the failure the key encoder or the underlying cursor reported
\*               to the last call ("none": no failure reported)
\* positioned    a reset/reset_by_pkey has succeeded on this cursor
\* nexts         successful next() calls since the last successful reset(),
\*               -1 when no reset() opened the walk the cursor is in
\* node          the B-tree page view a CursorItem shares (entry count, right_pid)
\* mutex         the handle holding the node's Mutex, 0 when it is free
\* item          the CursorItem handles on the node: index, position in the
\*               call being made, value last returned

(* ---------------------------- bounds ----------------------------------- *)
\* primary keys of the stored documents are 1..MaxPKey
MaxPKey == 2
\* the store holds at most MaxStore keys
MaxStore == 3

(* ------------------------- document values ----------------------------- *)
\* bson element type tags written in front of an encoded value
StringTag == 2
Int32Tag == 16

BsonString(s) == [t |-> "String", v |-> s]
BsonInt32(n) == [t |-> "Int32", v |-> <<n>>]
\* a value with no key encoding (stacked_key fails on it)
BsonArray == [t |-> "Array", v |-> <<>>]

\* collection names: "a" < "ab" < "b" as strings
CollNames == {<<97>>, <<97, 98>>, <<98>>}
Prefixes == {BsonString(s) : s \in CollNames}
PKeys == {BsonInt32(n) : n \in 1..MaxPKey}

(* --------------------------- key encoder ------------------------------- *)
\* big-endian 32-bit integer
Int32Bytes(n) ==
    <<(n \div 16777216) % 256, (n \div 65536) % 256, (n \div 256) % 256, n % 256>>

\* canonical encoding of one value: tag, payload, and for strings a 0 terminator
stacked_key_bytes(value) ==
    IF value.t = "String" THEN <<StringTag>> \o value.v \o <<0>>
    ELSE <<Int32Tag>> \o Int32Bytes(value.v[1])

CanEncode(value) == value.t \in {"String", "Int32"}

\* concatenation of the encodings of the values of a sequence
RECURSIVE stacked_key(_)
stacked_key(values) ==
    IF values = <<>> THEN <<>>
    ELSE stacked_key_bytes(Head(values)) \o stacked_key(Tail(values))

(* --------------------------- byte order -------------------------------- *)
\* lexicographic order of byte slices ([u8]::cmp == Less)
RECURSIVE BytesLess(_, _)
BytesLess(a, b) ==
    IF a = <<>> THEN b # <<>>
    ELSE IF b = <<>> THEN FALSE
    ELSE IF Head(a) < Head(b) THEN TRUE
    ELSE IF Head(a) > Head(b) THEN FALSE
    ELSE BytesLess(Tail(a), Tail(b))

\* mutant: the length test dropped (any shorter target counts as a match
\* when it agrees with the prefix as far as it goes)
is_prefix_with_nolen(target, pfx) ==
    \A i \in 1..Len(pfx) : i <= Len(target) => target[i] = pfx[i]

\* cursor.rs is_prefix_with
is_prefix_with(target, pfx) ==
    IF Len(target) < Len(pfx) THEN FALSE
    ELSE SubSeq(target, 1, Len(pfx)) = pfx

(* ----------------------- the ordered key space ------------------------- *)
\* keys a store may hold: the documents' keys of every collection, and the
\* bare key of collection "a" (a key shorter than the prefix of "ab")
KeyUniverse ==
    {stacked_key(<<BsonString(<<97>>)>>)}
        \cup {stacked_key(<<c, p>>) : c \in Prefixes, p \in PKeys}

IsSorted(s) == \A i \in 1..Len(s), j \in 1..Len(s) : i < j => BytesLess(s[i], s[j])

SortedSeq(S) == CHOOSE s \in [1..Cardinality(S) -> S] : IsSorted(s)

Stores == {SortedSeq(S) : S \in {T \in SUBSET KeyUniverse : Cardinality(T) <= MaxStore}}

None == <<>>
Some(x) == <<x>>

(* -------------------- MultiCursor (ordered cursor) --------------------- *)
\* position reached by seek(key): the first entry with key >= the argument,
\* one past the last entry when there is none
SeekPos(key) ==
    IF \E i \in 1..Len(store) : ~BytesLess(store[i], key)
    THEN CHOOSE i \in 1..Len(store) :
            /\ ~BytesLess(store[i], key)
            /\ \A j \in 1..(i - 1) : BytesLess(store[j], key)
    ELSE Len(store) + 1

\* MultiCursor::done at position p
DoneAt(p) == p > Len(store)
kv_done == DoneAt(kv_pos)

\* MultiCursor::key at position p
KeyAt(p) == IF DoneAt(p) THEN None ELSE Some(store[p])
kv_key == KeyAt(kv_pos)

\* MultiCursor::next: one entry forward, nothing past the end
AdvancePos(p) == IF DoneAt(p) THEN p ELSE p + 1

\* the document the store holds under key k
ValueOf(k) == [doc_of |-> k]

\* MultiCursor::value: the value of the entry the cursor is on
kv_value == IF kv_done THEN None ELSE Some(ValueOf(store[kv_pos]))

\* failures the storage engine may report
StorageErrors == {"Io", "Corrupt"}

(* ----------------------------- results --------------------------------- *)
Result(op, kind, flag, data, err, req, calls) ==
    [op |-> op, kind |-> kind, flag |-> flag, data |-> data, err |-> err,
     req |-> req, calls |-> calls]

Ok(op, flag, data, req, calls) == Result(op, "Ok", flag, data, "", req, calls)
Err(op, err, req, calls) == Result(op, "Err", FALSE, None, err, req, calls)

Alive == last.kind # "Panic"

(* --------------------------- construction ------------------------------ *)
\* Cursor::new on a store and an ordered cursor handed over by the caller
Init ==
    /\ store \in Stores
    /\ prefix \in Prefixes
    /\ prefix_bytes = stacked_key_bytes(prefix)
    /\ kv_pos \in 1..(Len(store) + 1)
    /\ current_key = None
    /\ last = Ok("new", FALSE, None, None, 0)
    /\ phase = "off"
    /\ yielded = <<>>
    /\ exhausted = 0

(* ------------------------------ reset ---------------------------------- *)
\* mutant: reset seeks but leaves current_key as it was
reset_stale(fail) ==
    LET key_buffer == stacked_key(<<prefix>>) IN
    /\ Alive
    /\ IF fail # "none"
       THEN /\ last' = Err("reset", fail, key_buffer, 1)
            /\ phase' = "off"
            /\ UNCHANGED <<kv_pos, yielded>>
       ELSE /\ kv_pos' = SeekPos(key_buffer)
            /\ last' = Ok("reset", FALSE, None, key_buffer, 1)
            /\ phase' = "test"
            /\ yielded' = <<>>
    /\ exhausted' = 0
    /\ UNCHANGED <<store, prefix, prefix_bytes, current_key>>

\* mutant: current_key cleared before the seek is tried
reset_clear_first(fail) ==
    LET key_buffer == stacked_key(<<prefix>>) IN
    /\ Alive
    /\ IF fail # "none"
       THEN /\ last' = Err("reset", fail, key_buffer, 1)
            /\ phase' = "off"
            /\ current_key' = None
            /\ UNCHANGED <<kv_pos, yielded>>
       ELSE /\ kv_pos' = SeekPos(key_buffer)
            /\ current_key' = KeyAt(kv_pos')
            /\ last' = Ok("reset", FALSE, None, key_buffer, 1)
            /\ phase' = "test"
            /\ yielded' = <<>>
    /\ exhausted' = 0
    /\ UNCHANGED <<store, prefix, prefix_bytes>>

\* Cursor::reset; fail is the outcome of kv_cursor.seek ("none": it succeeds)
reset(fail) ==
    LET key_buffer == stacked_key(<<prefix>>) IN
    /\ Alive
    /\ IF fail # "none"
       THEN /\ last' = Err("reset", fail, key_buffer, 1)
            /\ phase' = "off"
            /\ UNCHANGED <<kv_pos, current_key, yielded>>
       ELSE /\ kv_pos' = SeekPos(key_buffer)
            /\ current_key' = KeyAt(kv_pos')
            /\ last' = Ok("reset", FALSE, None, key_buffer, 1)
            /\ phase' = "test"
            /\ yielded' = <<>>
    /\ exhausted' = 0
    /\ UNCHANGED <<store, prefix, prefix_bytes>>

(* -------------------------- reset_by_pkey ------------------------------ *)
\* mutant: any landing on a key is reported as a match
reset_by_pkey_ret_landed(cur, key_buffer) == cur # None

\* the value reset_by_pkey returns once current_key is refreshed
reset_by_pkey_ret(cur, key_buffer) ==
    IF cur # None THEN cur[1] = key_buffer ELSE FALSE

\* mutant: a point lookup that misses reported as an error
reset_by_pkey_miss_err(pkey, fail) ==
    /\ Alive
    /\ IF ~CanEncode(pkey)
       THEN /\ last' = Err("reset_by_pkey", "NotAValidKeyType", None, 0)
            /\ UNCHANGED <<kv_pos, current_key>>
       ELSE LET key_buffer == stacked_key(<<prefix, pkey>>) IN
            IF fail # "none"
            THEN /\ last' = Err("reset_by_pkey", fail, key_buffer, 1)
                 /\ UNCHANGED <<kv_pos, current_key>>
            ELSE /\ kv_pos' = SeekPos(key_buffer)
                 /\ current_key' = KeyAt(kv_pos')
                 /\ last' = IF reset_by_pkey_ret(current_key', key_buffer)
                             THEN Ok("reset_by_pkey", TRUE, None, key_buffer, 1)
                             ELSE Err("reset_by_pkey", "KeyNotFound", key_buffer, 1)
    /\ phase' = "off"
    /\ exhausted' = 0
    /\ UNCHANGED <<store, prefix, prefix_bytes, yielded>>

\* Cursor::reset_by_pkey
reset_by_pkey(pkey, fail) ==
    /\ Alive
    /\ IF ~CanEncode(pkey)
       THEN /\ last' = Err("reset_by_pkey", "NotAValidKeyType", None, 0)
            /\ UNCHANGED <<kv_pos, current_key>>
       ELSE LET key_buffer == stacked_key(<<prefix, pkey>>) IN
            IF fail # "none"
            THEN /\ last' = Err("reset_by_pkey", fail, key_buffer, 1)
                 /\ UNCHANGED <<kv_pos, current_key>>
            ELSE /\ kv_pos' = SeekPos(key_buffer)
                 /\ current_key' = KeyAt(kv_pos')
                 /\ last' = Ok("reset_by_pkey",
                               reset_by_pkey_ret(current_key', key_buffer),
                               None, key_buffer, 1)
    /\ phase' = "off"
    /\ exhausted' = 0
    /\ UNCHANGED <<store, prefix, prefix_bytes, yielded>>

(* ----------------------------- peek_data ------------------------------- *)
\* mutant: the prefix test of peek_data dropped
peek_data_delegates_nocheck == current_key # None

\* TRUE when peek_data goes on to kv_cursor.value
peek_data_delegates ==
    IF current_key # None
    THEN IF ~is_prefix_with(current_key[1], prefix_bytes) THEN FALSE ELSE TRUE
    ELSE FALSE

\* Cursor::peek_data; fail is the outcome of kv_cursor.value
peek_data(fail) ==
    /\ Alive
    /\ IF ~peek_data_delegates
       THEN /\ last' = Ok("peek_data", FALSE, None, None, 0)
            /\ phase' = IF phase = "body" THEN "advance" ELSE "off"
            /\ UNCHANGED yielded
       ELSE IF fail # "none"
       THEN /\ last' = Err("peek_data", fail, None, 1)
            /\ phase' = "off"
            /\ UNCHANGED yielded
       ELSE /\ last' = Ok("peek_data", FALSE, kv_value, None, 1)
            /\ phase' = IF phase = "body" THEN "advance" ELSE "off"
            /\ yielded' = IF phase = "body" /\ ~kv_done
                          THEN Append(yielded, store[kv_pos]) ELSE yielded
    /\ UNCHANGED <<store, prefix, prefix_bytes, kv_pos, current_key, exhausted>>

(* --------------------------- update_current ---------------------------- *)
Documents == {"doc1", "doc2"}

\* mutant: update_current silently does nothing and reports success
update_current_noop(doc) ==
    /\ Alive
    /\ last' = Ok("update_current", FALSE, None, None, 0)
    /\ phase' = "off"
    /\ UNCHANGED <<store, prefix, prefix_bytes, kv_pos, current_key, yielded, exhausted>>

\* Cursor::update_current: unimplemented!() panics
update_current(doc) ==
    /\ Alive
    /\ last' = Result("update_current", "Panic", FALSE, None, "not implemented", None, 0)
    /\ phase' = "off"
    /\ UNCHANGED <<store, prefix, prefix_bytes, kv_pos, current_key, yielded, exhausted>>

(* ------------------------------ has_next ------------------------------- *)
\* mutant: the prefix test made on the key the underlying cursor is on
\* instead of current_key
has_next_ret_live ==
    IF kv_done THEN FALSE
    ELSE IF ~is_prefix_with(store[kv_pos], prefix_bytes) THEN FALSE
    ELSE TRUE

\* mutant: an unset current_key answered with false
has_next_ret_unset ==
    IF kv_done THEN FALSE
    ELSE IF current_key = None THEN FALSE
    ELSE IF ~is_prefix_with(current_key[1], prefix_bytes) THEN FALSE
    ELSE TRUE

\* mutant: only the underlying cursor's done flag consulted
has_next_ret_doneonly == IF kv_done THEN FALSE ELSE TRUE

\* mutant: the underlying cursor's done flag not consulted
has_next_ret_keyonly ==
    IF current_key # None /\ ~is_prefix_with(current_key[1], prefix_bytes) THEN FALSE
    ELSE TRUE

\* the value has_next returns
has_next_ret ==
    IF kv_done THEN FALSE
    ELSE IF current_key # None /\ ~is_prefix_with(current_key[1], prefix_bytes) THEN FALSE
    ELSE TRUE

\* mutant: has_next refreshes current_key from the underlying cursor
has_next_refresh ==
    /\ Alive
    /\ current_key' = kv_key
    /\ last' = Ok("has_next", has_next_ret, None, None, 0)
    /\ phase' = IF phase = "test" THEN (IF has_next_ret THEN "body" ELSE "end") ELSE "off"
    /\ exhausted' = IF exhausted > 0 THEN 2 ELSE IF has_next_ret THEN 0 ELSE 1
    /\ UNCHANGED <<store, prefix, prefix_bytes, kv_pos, yielded>>

\* Cursor::has_next
has_next ==
    /\ Alive
    /\ last' = Ok("has_next", has_next_ret, None, None, 0)
    /\ phase' = IF phase = "test" THEN (IF has_next_ret THEN "body" ELSE "end") ELSE "off"
    /\ exhausted' = IF exhausted > 0 THEN 2 ELSE IF has_next_ret THEN 0 ELSE 1
    /\ UNCHANGED <<store, prefix, prefix_bytes, kv_pos, current_key, yielded>>

(* -------------------------------- next --------------------------------- *)
\* mutant: a failed advance tried a second time, which then succeeds
next_retry(fail) ==
    /\ Alive
    /\ kv_pos' = AdvancePos(kv_pos)
    /\ last' = Ok("next", FALSE, None, None, IF fail # "none" THEN 2 ELSE 1)
    /\ phase' = IF phase = "advance" THEN "test" ELSE "off"
    /\ UNCHANGED <<store, prefix, prefix_bytes, current_key, yielded, exhausted>>

\* Cursor::next; fail is the outcome of kv_cursor.next
next(fail) ==
    /\ Alive
    /\ IF fail # "none"
       THEN /\ last' = Err("next", fail, None, 1)
            /\ phase' = "off"
            /\ UNCHANGED kv_pos
       ELSE /\ kv_pos' = AdvancePos(kv_pos)
            /\ last' = Ok("next", FALSE, None, None, 1)
            /\ phase' = IF phase = "advance" THEN "test" ELSE "off"
    /\ UNCHANGED <<store, prefix, prefix_bytes, current_key, yielded, exhausted>>

(* ----------------------- CursorItem (node handle) ---------------------- *)
\* handles (clones of one CursorItem) sharing a node are 1..NumHandles
NumHandles == 2
\* the node holds 0..MaxNodeLen entries
MaxNodeLen == 2

Handles == 1..NumHandles
\* page ids a node may name as its right sibling
RightPids == {0, 3}

NoRet == [op |-> "none", flag |-> FALSE, pid |-> 0]

\* CursorItem::new followed by clone(): every handle carries the same index
ItemInit(index) ==
    [h \in Handles |-> [index |-> index, pc |-> "idle", ret |-> NoRet]]

\* a handle is between lock() and the drop of the guard
InCS(h) == item[h].pc \in {"done_read", "done_unlock", "pid_read", "pid_unlock"}

\* a caller enters done() or right_pid() on handle h
item_call(h, op) ==
    /\ item[h].pc = "idle"
    /\ item' = [item EXCEPT ![h].pc = op, ![h].ret = NoRet]
    /\ UNCHANGED <<node, mutex>>

\* self.node.lock().unwrap(): blocks while another handle holds the Mutex
lock(h, from, to) ==
    /\ item[h].pc = from
    /\ mutex = 0
    /\ mutex' = h
    /\ item' = [item EXCEPT ![h].pc = to]
    /\ UNCHANGED node

\* mutant: the guard is leaked (mem::forget) and the call returns with the
\* Mutex still held
unlock_leaked(h, from, op) ==
    /\ item[h].pc = from
    /\ item' = [item EXCEPT ![h].pc = "idle", ![h].ret.op = op]
    /\ UNCHANGED <<node, mutex>>

\* the guard dropped on return
unlock(h, from, op) ==
    /\ item[h].pc = from
    /\ mutex' = 0
    /\ item' = [item EXCEPT ![h].pc = "idle", ![h].ret.op = op]
    /\ UNCHANGED node

\* mutant: exhausted only once the index is past the entry count
done_ret_past(index, len) == index > len

\* CursorItem::done: the value returned
done_ret(index, len) == index >= len

\* CursorItem::done, one step each: call, lock, read and compare, return
done_call(h) == item_call(h, "done_lock")
done_lock(h) == lock(h, "done_lock", "done_read")
done_read(h) ==
    /\ item[h].pc = "done_read"
    /\ item' = [item EXCEPT ![h].pc = "done_unlock",
                            ![h].ret.flag = done_ret(item[h].index, node.len)]
    /\ UNCHANGED <<node, mutex>>
done_unlock(h) == unlock(h, "done_unlock", "done")

\* CursorItem::right_pid, one step each: call, lock, read, return
right_pid_call(h) == item_call(h, "pid_lock")
right_pid_lock(h) == lock(h, "pid_lock", "pid_read")
right_pid_read(h) ==
    /\ item[h].pc = "pid_read"
    /\ item' = [item EXCEPT ![h].pc = "pid_unlock", ![h].ret.pid = node.right_pid]
    /\ UNCHANGED <<node, mutex>>
right_pid_unlock(h) == unlock(h, "pid_unlock", "right_pid")

\* no handle in use (while the document cursor is at work)
NodeParked ==
    /\ node = [len |-> 0, right_pid |-> 0]
    /\ mutex = 0
    /\ item = ItemInit(0)

\* CursorItem::new on a page view, then clone() for every further handle
NodeInit ==
    /\ node \in [len : 0..MaxNodeLen, right_pid : RightPids]
    /\ mutex = 0
    /\ \E index \in 0..(MaxNodeLen + 1) : item = ItemInit(index)

(* ------------------------ what the calls record ------------------------ *)
Min(a, b) == IF a < b THEN a ELSE b

\* bookkeeping of a call on the cursor; flt is the failure the key encoder or
\* the underlying cursor reported to it
Watch(flt) ==
    /\ fault' = flt
    /\ positioned' = (positioned
                        \/ (last'.kind = "Ok" /\ last'.op \in {"reset", "reset_by_pkey"}))
    /\ nexts' = IF last'.op = "reset"
                THEN (IF last'.kind = "Ok" THEN 0 ELSE -1)
                ELSE IF last'.op = "reset_by_pkey" THEN -1
                ELSE IF last'.op = "next"
                THEN (IF nexts < 0 \/ last'.kind # "Ok" THEN -1
                      ELSE Min(nexts + 1, Len(store) + 1))
                ELSE nexts
    /\ UNCHANGED nvars

WatchInit ==
    /\ fault = "none"
    /\ positioned = FALSE
    /\ nexts = -1

(* --------------------------- specification ----------------------------- *)
Outcomes == {"none"} \cup StorageErrors

\* the calls on a document cursor
Next ==
    \/ \E fail \in Outcomes : reset(fail) /\ Watch(fail)
    \/ \E pkey \in PKeys \cup {BsonInt32(MaxPKey + 1), BsonArray}, fail \in Outcomes :
          /\ reset_by_pkey(pkey, fail)
          /\ Watch(IF CanEncode(pkey) THEN fail ELSE "NotAValidKeyType")
    \/ \E fail \in Outcomes :
          /\ peek_data(fail)
          /\ Watch(IF peek_data_delegates THEN fail ELSE "none")
    \/ \E doc \in Documents : update_current(doc) /\ Watch("none")
    \/ has_next /\ Watch("none")
    \/ \E fail \in Outcomes : next(fail) /\ Watch(fail)

SpecInit == Init /\ WatchInit /\ NodeParked

Spec == SpecInit /\ [][Next]_vars

\* the document cursor left alone while the node handles are at work
CursorParked ==
    /\ store = <<>>
    /\ prefix = BsonString(<<97>>)
    /\ prefix_bytes = stacked_key_bytes(prefix)
    /\ kv_pos = 1
    /\ current_key = None
    /\ last = Ok("new", FALSE, None, None, 0)
    /\ phase = "off"
    /\ yielded = <<>>
    /\ exhausted = 0
    /\ WatchInit

\* the calls on the handles of one node, interleaved
NodeNext ==
    \/ \E h \in Handles : done_call(h) /\ UNCHANGED cvars
    \/ \E h \in Handles : done_lock(h) /\ UNCHANGED cvars
    \/ \E h \in Handles : done_read(h) /\ UNCHANGED cvars
    \/ \E h \in Handles : done_unlock(h) /\ UNCHANGED cvars
    \/ \E h \in Handles : right_pid_call(h) /\ UNCHANGED cvars
    \/ \E h \in Handles : right_pid_lock(h) /\ UNCHANGED cvars
    \/ \E h \in Handles : right_pid_read(h) /\ UNCHANGED cvars
    \/ \E h \in Handles : right_pid_unlock(h) /\ UNCHANGED cvars

NodeSpecInit == CursorParked /\ NodeInit

\* some blocked lock() returns: a free Mutex with callers blocked on it is
\* acquired by one of them, which one is not determined
some_lock ==
    \E h \in Handles : done_lock(h) \/ right_pid_lock(h)

\* a handle holding the Mutex goes on running (read, then drop the guard), and
\* a free Mutex with waiters is taken by one of them.  std::sync::Mutex
\* promises no order among the waiters, so no handle on its own is given a
\* fair turn at lock().
NodeFairness ==
    /\ WF_vars(some_lock /\ UNCHANGED cvars)
    /\ \A h \in Handles :
        /\ WF_vars(done_read(h) /\ UNCHANGED cvars)
        /\ WF_vars(done_unlock(h) /\ UNCHANGED cvars)
        /\ WF_vars(right_pid_read(h) /\ UNCHANGED cvars)
        /\ WF_vars(right_pid_unlock(h) /\ UNCHANGED cvars)

NodeSpec == NodeSpecInit /\ [][NodeNext]_vars /\ NodeFairness

(* ======================================================================= *)
(* Properties                                                              *)
(* ======================================================================= *)
\* k has p as a byte-prefix
HasBytePrefix(k, p) == Len(k) >= Len(p) /\ \A i \in 1..Len(p) : k[i] = p[i]

\* encode([prefix])
EncPrefix == stacked_key(<<prefix>>)

\* the store keys of the cursor's collection, in store order
InRange == SelectSeq(store, LAMBDA k : HasBytePrefix(k, EncPrefix))

\* index of the smallest store key >= key, Len(store) + 1 when there is none
LeastGE(key) ==
    LET S == {i \in 1..Len(store) : ~BytesLess(store[i], key)} IN
    IF S = {} THEN Len(store) + 1 ELSE CHOOSE i \in S : \A j \in S : i <= j

OkCall(op) == last.op = op /\ last.kind = "Ok"

\* C1 (prefix containment): in the loop reset(); while has_next() {
\* peek_data(); next() } every entry peek_data hands out has encode([prefix])
\* as a byte-prefix, and has_next() answers false when the underlying cursor
\* stands on a key without it.
C1_PrefixContainment ==
    /\ \A i \in 1..Len(yielded) : HasBytePrefix(yielded[i], EncPrefix)
    /\ (phase \in {"body", "end"} /\ ~kv_done /\ ~HasBytePrefix(store[kv_pos], EncPrefix))
          => last.flag = FALSE

\* C2 (cache consistency): after every successful reset(), reset_by_pkey()
\* and next(), current_key equals the key the underlying cursor reports.
C2_CacheConsistency ==
    (OkCall("reset") \/ OkCall("reset_by_pkey") \/ OkCall("next"))
        => current_key = kv_key

\* C3 (exact match): a successful reset_by_pkey(p) returns true exactly when
\* the store holds encode([prefix, p]); in every case it leaves the cursor on
\* the smallest store key >= encode([prefix, p]) and current_key on that key
\* (None at the end of the store).
C3_ExactMatch ==
    OkCall("reset_by_pkey") =>
        /\ \E p \in PKeys \cup {BsonInt32(MaxPKey + 1)} :
              last.req = stacked_key(<<prefix, p>>)
        /\ last.flag = (\E i \in 1..Len(store) : store[i] = last.req)
        /\ kv_pos = LeastGE(last.req)
        /\ current_key = IF kv_pos > Len(store) THEN None ELSE Some(store[kv_pos])

\* C3 witness: a miss that lands on the next document of the same collection.
C3_Witness ==
    /\ OkCall("reset_by_pkey")
    /\ last.flag = FALSE
    /\ current_key # None
    /\ HasBytePrefix(current_key[1], EncPrefix)
    /\ BytesLess(last.req, current_key[1])

\* C4 (complete ordered scan): when the loop reset(); while has_next() {
\* peek_data(); next() } ends, it has yielded exactly the store keys with the
\* byte-prefix encode([prefix]), each once, in ascending order.
C4_CompleteScan ==
    phase = "end" => yielded = InRange

\* C5 (exhaustion stability): once has_next() has returned false, every
\* has_next() call made before the next reset()/reset_by_pkey() returns
\* false, whatever next(), peek_data() and has_next() calls come between.
C5_ExhaustionStable ==
    [][(exhausted > 0 /\ last'.op = "has_next") => last'.flag = FALSE]_vars

\* C5 witness: has_next() called again after it had returned false and the
\* cursor had been advanced since.
C5_Witness ==
    /\ exhausted = 2
    /\ last.op = "has_next"
    /\ last.flag = FALSE
    /\ ~kv_done
    /\ current_key # None
    /\ kv_key # current_key

\* where a fresh cursor stands after reset(): on the smallest key >= encode([prefix])
AtRangeStart ==
    /\ kv_pos = LeastGE(EncPrefix)
    /\ current_key = IF kv_pos > Len(store) THEN None ELSE Some(store[kv_pos])

\* C6 (restartable reset): a successful reset(), after any calls, leaves the
\* underlying cursor and current_key on the smallest store key >=
\* encode([prefix]); a second reset() in a row leaves the same position.
C6_ResetRestarts ==
    /\ [](OkCall("reset") => AtRangeStart)
    /\ [][(OkCall("reset") /\ last'.op = "reset" /\ last'.kind = "Ok")
            => (kv_pos' = kv_pos /\ current_key' = current_key)]_vars

\* C6 witness: reset() has put a cursor back on the first key of its range in
\* a store that holds keys before and after that key.
C6_Witness ==
    /\ OkCall("reset")
    /\ kv_pos > 1
    /\ kv_pos < Len(store)
    /\ current_key = Some(store[kv_pos])
    /\ HasBytePrefix(store[kv_pos], EncPrefix)

\* the prefix test of peek_data fails: current_key unset or outside the prefix
OutOfPrefix == current_key = None \/ ~HasBytePrefix(current_key[1], prefix_bytes)

\* C7 (peek_data): with current_key unset or without the byte-prefix
\* prefix_bytes, peek_data returns Ok(None) and does not touch the underlying
\* cursor; otherwise it makes one value fetch and returns what that yields.
\* After a reset_by_pkey miss that lands outside the prefix or at the end of
\* the store, the following peek_data returns Ok(None).
C7_PeekData ==
    /\ [](last.op = "peek_data" =>
            IF OutOfPrefix
            THEN last.kind = "Ok" /\ last.data = None /\ last.calls = 0
            ELSE last.calls = 1 /\ (last.kind = "Ok" => last.data = kv_value))
    /\ [][(OkCall("reset_by_pkey") /\ last.flag = FALSE /\ OutOfPrefix
             /\ last'.op = "peek_data")
            => (last'.kind = "Ok" /\ last'.data = None)]_vars

\* C7 witness: peek_data answered "no value" on a key of another collection
\* that the underlying cursor could have served.
C7_Witness ==
    /\ last.op = "peek_data"
    /\ last.data = None
    /\ current_key # None
    /\ ~HasBytePrefix(current_key[1], prefix_bytes)
    /\ kv_key = current_key

\* C8 (has_next): has_next() returns false when the underlying cursor is done
\* or current_key is set and lacks the byte-prefix prefix_bytes, and true in
\* every other state, also right after a reset()/reset_by_pkey() that follows
\* a false answer.
C8_HasNext ==
    last.op = "has_next" =>
        last.flag = ~(kv_done \/ (current_key # None
                                    /\ ~HasBytePrefix(current_key[1], prefix_bytes)))

\* C8 witness: has_next() answered false on an underlying cursor that is not
\* done, because current_key lies outside the prefix.
C8_Witness ==
    /\ last.op = "has_next"
    /\ last.flag = FALSE
    /\ ~kv_done
    /\ current_key # None
    /\ ~HasBytePrefix(current_key[1], prefix_bytes)

\* C9 (empty range): when no store key has the byte-prefix encode([prefix]),
\* the has_next() call that follows a successful reset() returns false.
C9_EmptyRange ==
    [][(OkCall("reset") /\ InRange = <<>> /\ last'.op = "has_next")
          => last'.flag = FALSE]_vars

\* C9 witness: has_next() has answered false right after reset() landed on a
\* key of a later collection, the cursor's own range being empty.
C9_Witness ==
    /\ InRange = <<>>
    /\ phase = "end"
    /\ last.op = "has_next"
    /\ last.flag = FALSE
    /\ current_key # None
    /\ ~kv_done

\* C10 (update_current): every call ends in a panic, never in a return, and
\* changes nothing of the cursor or the store; no other call ends that way.
C10_UpdateCurrentUnsupported ==
    /\ [](last.kind = "Panic" <=> last.op = "update_current")
    /\ [][last'.op = "update_current"
            => UNCHANGED <<current_key, prefix, prefix_bytes, kv_pos, store>>]_vars

\* C10 witness: update_current has panicked on a positioned cursor.
C10_Witness ==
    /\ last.op = "update_current"
    /\ last.kind = "Panic"
    /\ current_key # None
    /\ ~kv_done

\* the calls the claims on error values are about
Fallible == {"reset", "reset_by_pkey", "peek_data", "next"}

\* C11 (normal outcomes are not errors): when neither the key encoder nor the
\* underlying cursor reports a failure, reset(), reset_by_pkey() and
\* peek_data() return Ok; a point lookup that misses is Ok(false), the end of
\* the range is has_next() = false and peek_data's Ok(None).
C11_NormalOutcomesOk ==
    /\ (last.op \in {"reset", "reset_by_pkey", "peek_data"} /\ fault = "none")
          => last.kind = "Ok"
    /\ (last.op = "reset_by_pkey" /\ fault = "none"
          /\ ~(\E i \in 1..Len(store) : store[i] = last.req))
          => (last.kind = "Ok" /\ last.flag = FALSE)
    /\ last.op = "has_next" => (last.kind = "Ok" /\ (kv_done => last.flag = FALSE))
    /\ (last.op = "peek_data" /\ OutOfPrefix) => (last.kind = "Ok" /\ last.data = None)

\* C11 witness: a point lookup has run off the end of the store and returned
\* Ok(false).
C11_Witness ==
    /\ last.op = "reset_by_pkey"
    /\ fault = "none"
    /\ last.kind = "Ok"
    /\ last.flag = FALSE
    /\ kv_done
    /\ Len(store) > 0

\* C12 (storage errors): a failure of the underlying cursor's seek, advance or
\* value fetch is returned as that same error by reset(), reset_by_pkey(),
\* next() or peek_data(), after one attempt on the underlying cursor.
C12_StorageErrorsPropagate ==
    fault \in StorageErrors =>
        /\ last.op \in Fallible
        /\ last.kind = "Err"
        /\ last.err = fault
        /\ last.calls = 1

\* C12 witness: an advance of the underlying cursor has failed.
C12_Witness ==
    /\ last.op = "next"
    /\ fault = "Corrupt"
    /\ last.kind = "Err"
    /\ current_key # None

\* handles waiting for the node's Mutex
Waiting(h) == item[h].pc \in {"done_lock", "pid_lock"}

\* the node's Mutex is held exactly by the one handle inside lock()..drop
MutexHeldInCS ==
    /\ Cardinality({h \in Handles : InCS(h)}) <= 1
    /\ \A h \in Handles : InCS(h) <=> mutex = h

\* C13 as stated (lock discipline): done() and right_pid() take the node's
\* Mutex, read the node and release the Mutex on return; whatever the
\* interleaving of the handles' calls, at most one call is inside the critical
\* section and every call returns.  The Mutex gives a waiter no turn, so a
\* handle blocked in lock() can be overtaken for ever by the others' calls.
C13_EveryCallCompletes ==
    /\ []MutexHeldInCS
    /\ \A h \in Handles : (item[h].pc # "idle") ~> (item[h].pc = "idle")

\* C13 amended (lock discipline without a fair turn): at most one call is
\* inside the critical section and the Mutex is held exactly by it; a call
\* that has acquired the Mutex returns, having released it; the Mutex is
\* always released again; and while calls are blocked in lock() one of them
\* gets the Mutex, so the handles never deadlock.
C13_LockDiscipline ==
    /\ []MutexHeldInCS
    /\ \A h \in Handles : InCS(h) ~> (item[h].pc = "idle" /\ mutex # h)
    /\ (mutex # 0) ~> (mutex = 0)
    /\ (\E h \in Handles : Waiting(h)) ~> (\E h \in Handles : InCS(h))

\* C13 witness: one handle reads the node under the Mutex while another
\* waits for it.
C13_Witness ==
    \E h1, h2 \in Handles :
        /\ h1 # h2
        /\ item[h1].pc = "done_read"
        /\ mutex = h1
        /\ Waiting(h2)

\* C14 (done): done() returns true exactly when the handle's index is >= the
\* node's entry count, which it reads while holding the Mutex; no call changes
\* an index or the node.
C14_DoneExhausted ==
    /\ [](\A h \in Handles :
            /\ item[h].ret.op = "done" => item[h].ret.flag = (item[h].index >= node.len)
            /\ item[h].pc = "done_unlock" =>
                  (mutex = h /\ item[h].ret.flag = (item[h].index >= node.len)))
    /\ [][node' = node /\ \A h \in Handles : item'[h].index = item[h].index]_vars

\* C14 witness: done() has returned true on an index equal to the entry count
\* of a node that holds entries.
C14_Witness ==
    \E h \in Handles :
        /\ item[h].ret.op = "done"
        /\ item[h].ret.flag = TRUE
        /\ item[h].index = node.len
        /\ node.len > 0

\* current_key is set and has prefix_bytes as a byte-prefix
InPrefix == current_key # None /\ HasBytePrefix(current_key[1], prefix_bytes)

\* C15 as claimed: whenever has_next() returns true, also on a cursor just
\* built, current_key is set and has prefix_bytes as a byte-prefix.
C15_HasNextImpliesInPrefix ==
    (last.op = "has_next" /\ last.flag = TRUE) => InPrefix

\* C15 as amended: on a cursor on which a reset()/reset_by_pkey() has
\* succeeded, has_next() = true implies that current_key is set and has
\* prefix_bytes as a byte-prefix; on a cursor never positioned current_key is
\* unset and has_next() returns true exactly when the underlying cursor is
\* not done.
C15_HasNextInPrefixOncePositioned ==
    last.op = "has_next" =>
        IF positioned
        THEN last.flag = TRUE => InPrefix
        ELSE current_key = None /\ last.flag = ~kv_done

\* C15 witness: has_next() has returned true on a positioned cursor that
\* next() has moved since.
C15_Witness ==
    /\ last.op = "has_next"
    /\ last.flag = TRUE
    /\ positioned
    /\ InPrefix
    /\ kv_key # current_key

\* C16 (observers): has_next() and peek_data() leave prefix, prefix_bytes,
\* current_key, the underlying cursor's position and the store as they were.
C16_ObserversChangeNothing ==
    [][last'.op \in {"has_next", "peek_data"}
          => UNCHANGED <<prefix, prefix_bytes, current_key, kv_pos, store>>]_vars

\* C16 witness: peek_data() has fetched a value while current_key was behind
\* the underlying cursor.
C16_Witness ==
    /\ last.op = "peek_data"
    /\ last.kind = "Ok"
    /\ last.data # None
    /\ kv_key # current_key

\* C17 (failed seek): when the key encoding or the seek fails in reset() or
\* reset_by_pkey(), the call returns that error and current_key keeps the
\* value it had.
C17_FailedSeekKeepsKey ==
    [][(last'.op \in {"reset", "reset_by_pkey"} /\ fault' # "none")
          => (last'.kind = "Err" /\ last'.err = fault' /\ current_key' = current_key)]_vars

\* C17 witness: a seek has failed on a cursor whose current_key was set.
C17_Witness ==
    /\ last.op = "reset"
    /\ last.kind = "Err"
    /\ fault \in StorageErrors
    /\ current_key # None

\* store keys >= encode([prefix])
KeysFromPrefix == Cardinality({i \in 1..Len(store) : ~BytesLess(store[i], EncPrefix)})

\* C18 (the scan ends): after a successful reset(), has_next() returns false
\* once as many next() calls have succeeded as the store holds keys >=
\* encode([prefix]).
C18_ScanEnds ==
    (last.op = "has_next" /\ nexts >= 0 /\ nexts >= KeysFromPrefix) => last.flag = FALSE

\* C18 witness: has_next() has returned false after the cursor was advanced
\* over every key of a range of two or more keys, current_key still lying in
\* the prefix.
C18_Witness ==
    /\ last.op = "has_next"
    /\ last.flag = FALSE
    /\ KeysFromPrefix >= 2
    /\ nexts = KeysFromPrefix
    /\ InPrefix

====
